---- MODULE Spec2Model ----
(***************************************************************************)
(* A model of great_expectations/core/batch.py: BatchDefinition, the       *)
(* BatchRequestBase / BatchRequest / RuntimeBatchRequest hierarchy and     *)
(* get_batch_request_from_acceptable_arguments.                            *)
(*                                                                         *)
(* Python values are tagged records [t, s, d]: t is the Python type name,  *)
(* s a scalar payload (the text of a str, the digits of an int, the        *)
(* __name__ of a function, the address of an object with identity) and d   *)
(* the entries of a mapping or the attributes of an instance.  A raised    *)
(* exception is the value whose t is the exception class.                  *)
(***************************************************************************)
EXTENDS Integers, Sequences, FiniteSets, TLC

\* ------------------------------------------------------------------------
\* Bounds
\* ------------------------------------------------------------------------
MaxVal == 1
MaxObjs == 3
MaxData == 2

\* ------------------------------------------------------------------------
\* Python values
\* ------------------------------------------------------------------------
EmptyMap == [k \in {} |-> ""]

V(t, s, d) == [t |-> t, s |-> s, d |-> d]

None == V("NoneType", "", EmptyMap)

Str(x) == V("str", x, EmptyMap)

IntV(x) == V("int", x, EmptyMap)

Dict(m) == V("dict", "", m)

IDDict(m) == V("IDDict", "", m)

Function(name) == V("function", name, EmptyMap)

DataFrame(addr) == V("DataFrame", addr, EmptyMap)

Raise(cls, msg) == V(cls, msg, EmptyMap)

ExceptionClasses ==
    {"TypeError", "ValueError", "GreatExpectationsTypeError", "AttributeError", "AssertionError"}

IsExc(v) == v.t \in ExceptionClasses

\* bool(v)
truthy(v) ==
    CASE v.t = "NoneType" -> FALSE
      [] v.t = "str" -> v.s # ""
      [] v.t = "int" -> v.s # "0"
      [] v.t \in {"dict", "IDDict", "BatchKwargs"} -> DOMAIN v.d # {}
      [] OTHER -> TRUE

isinstance_str(v) == v.t = "str"

isinstance_int(v) == v.t = "int"

isinstance_dict(v) == v.t \in {"dict", "IDDict", "BatchKwargs"}

isinstance_IDDict(v) == v.t \in {"IDDict", "BatchKwargs"}

isinstance_BatchRequest(v) == v.t \in {"BatchRequest", "RuntimeBatchRequest"}

\* key in mapping
HasKey(m, k) == k \in DOMAIN m.d

\* mapping[key] = value, on a mapping of the same type
SetItem(m, k, x) == V(m.t, m.s, (k :> x) @@ m.d)

\* mapping.get(key)
Get(m, k) == IF HasKey(m, k) THEN m.d[k] ELSE None

\* str(type(v))
str_type(v) == Str("<class '" \o v.t \o "'>")

\* ------------------------------------------------------------------------
\* Collaborators outside batch.py
\* ------------------------------------------------------------------------
\* filter_properties_dict(properties, clean_falsy=True, inplace=True): the
\* keys whose value is null, an empty string or an empty mapping are dropped
\* from the top level of the mapping.
filter_properties_dict(m) ==
    LET dropped(x) == x.t = "NoneType" \/ (x.t = "str" /\ x.s = "")
                      \/ (isinstance_dict(x) /\ DOMAIN x.d = {})
    IN [k \in {j \in DOMAIN m : ~dropped(m[j])} |-> m[k]]

\* convert_to_json_serializable: mappings of every mapping type become plain
\* JSON objects, recursively; scalars stay.
RECURSIVE convert_to_json_serializable(_)
convert_to_json_serializable(v) ==
    IF isinstance_dict(v)
    THEN Dict([k \in DOMAIN v.d |-> convert_to_json_serializable(v.d[k])])
    ELSE v

\* IDDict.to_id(): the digest of the key-sorted JSON text of the mapping.
\* The digest is taken to be collision free: two ids are equal exactly when
\* the JSON objects are.
to_id(v) == V("md5", "", convert_to_json_serializable(v).d)

\* hash(str)
hash(v) == V("hash", "", v.d)

\* ------------------------------------------------------------------------
\* BatchDefinition
\* ------------------------------------------------------------------------
\* The first failed check raises; None when every check passes.
validate_batch_definition(k) ==
    IF k.datasource_name = None
    THEN Raise("ValueError", "datasource_name")
    ELSE IF truthy(k.datasource_name) /\ ~isinstance_str(k.datasource_name)
    THEN Raise("TypeError", "datasource_name")
    ELSE IF k.data_connector_name = None
    THEN Raise("ValueError", "data_connector_name")
    ELSE IF truthy(k.data_connector_name) /\ ~isinstance_str(k.data_connector_name)
    THEN Raise("TypeError", "data_connector_name")
    ELSE IF k.data_asset_name = None
    THEN Raise("ValueError", "data_asset_name")
    ELSE IF truthy(k.data_asset_name) /\ ~isinstance_str(k.data_asset_name)
    THEN Raise("TypeError", "data_asset_name")
    ELSE IF truthy(k.batch_identifiers) /\ ~isinstance_IDDict(k.batch_identifiers)
    THEN Raise("TypeError", "batch_identifiers")
    ELSE None

\* BatchDefinition.__init__ at address addr: the instance, or the exception
\* raised.  The assert of line 76 is executed (the interpreter runs without -O).
BatchDefinition_init(addr, k) ==
    LET e == validate_batch_definition(k)
    IN IF IsExc(e) THEN e
       ELSE IF k.batch_identifiers.t # "IDDict"
       THEN Raise("AssertionError", "type(batch_identifiers) == IDDict")
       ELSE V("BatchDefinition", addr,
              [datasource_name |-> k.datasource_name,
               data_connector_name |-> k.data_connector_name,
               data_asset_name |-> k.data_asset_name,
               batch_identifiers |-> k.batch_identifiers,
               batch_spec_passthrough |-> k.batch_spec_passthrough])

\* the batch_spec_passthrough setter
set_batch_spec_passthrough(self, p) ==
    V(self.t, self.s, [self.d EXCEPT !.batch_spec_passthrough = p])

\* faulty variant: batch_spec_passthrough is serialized with the other fields
BatchDefinition_to_json_dict_with_passthrough(self) ==
    convert_to_json_serializable(Dict(self.d))

BatchDefinition_to_json_dict(self) ==
    convert_to_json_serializable(
        Dict([datasource_name |-> self.d.datasource_name,
              data_connector_name |-> self.d.data_connector_name,
              data_asset_name |-> self.d.data_asset_name,
              batch_identifiers |-> self.d.batch_identifiers]))

BatchDefinition_id(self) == to_id(IDDict(BatchDefinition_to_json_dict(self).d))

\* self == other: NotImplemented for another class, and Python falls back to
\* identity
BatchDefinition_eq(self, other) ==
    IF other.t = "BatchDefinition" THEN BatchDefinition_id(self) = BatchDefinition_id(other)
    ELSE FALSE

BatchDefinition_hash(self) == hash(BatchDefinition_id(self))

\* ------------------------------------------------------------------------
\* BatchRequestBase, BatchRequest, RuntimeBatchRequest
\* ------------------------------------------------------------------------
\* BatchRequestBase.__init__: k holds the keyword arguments; the fields that
\* are not passed default to None.
BatchRequestBase_init(cls, addr, k) ==
    V(cls, addr,
      [datasource_name |-> k.datasource_name,
       data_connector_name |-> k.data_connector_name,
       data_asset_name |-> k.data_asset_name,
       data_connector_query |-> k.data_connector_query,
       limit |-> k.limit,
       runtime_parameters |-> None,
       batch_identifiers |-> None,
       batch_spec_passthrough |-> k.batch_spec_passthrough])

\* The first failed check raises; None when every check passes.
validate_init_parameters(k) ==
    IF ~(truthy(k.datasource_name) /\ isinstance_str(k.datasource_name))
    THEN Raise("TypeError", "datasource_name")
    ELSE IF ~(truthy(k.data_connector_name) /\ isinstance_str(k.data_connector_name))
    THEN Raise("TypeError", "data_connector_name")
    ELSE IF ~(truthy(k.data_asset_name) /\ isinstance_str(k.data_asset_name))
    THEN Raise("TypeError", "data_asset_name")
    ELSE IF truthy(k.data_connector_query) /\ ~isinstance_dict(k.data_connector_query)
    THEN Raise("TypeError", "data_connector_query")
    ELSE IF truthy(k.limit) /\ ~isinstance_int(k.limit)
    THEN Raise("TypeError", "limit")
    ELSE None

validate_runtime_batch_request_specific_init_parameters(k) ==
    IF ~(truthy(k.runtime_parameters) /\ isinstance_dict(k.runtime_parameters))
    THEN Raise("TypeError", "runtime_parameters")
    ELSE IF ~(truthy(k.batch_identifiers) /\ isinstance_dict(k.batch_identifiers))
    THEN Raise("TypeError", "batch_identifiers")
    ELSE IF truthy(k.batch_spec_passthrough) /\ ~isinstance_dict(k.batch_spec_passthrough)
    THEN Raise("TypeError", "batch_spec_passthrough")
    ELSE None

\* BatchRequest.__init__ of an instance of cls at address addr: the instance,
\* or the exception raised
BatchRequest_init(cls, addr, k) ==
    LET e == validate_init_parameters(k)
    IN IF IsExc(e) THEN e ELSE BatchRequestBase_init(cls, addr, k)

\* RuntimeBatchRequest.__init__
RuntimeBatchRequest_init(addr, k) ==
    LET parent == [datasource_name |-> k.datasource_name,
                   data_connector_name |-> k.data_connector_name,
                   data_asset_name |-> k.data_asset_name,
                   data_connector_query |-> None,
                   limit |-> None,
                   batch_spec_passthrough |-> k.batch_spec_passthrough]
        base == BatchRequest_init("RuntimeBatchRequest", addr, parent)
        e == validate_runtime_batch_request_specific_init_parameters(k)
    IN IF IsExc(base) THEN base
       ELSE IF IsExc(e) THEN e
       ELSE V(base.t, base.s,
              [base.d EXCEPT !.runtime_parameters = k.runtime_parameters,
                             !.batch_identifiers = k.batch_identifiers])

\* lines 271-277: the copy of data_connector_query that goes into the JSON
\* mapping; taking __name__ of a custom_filter_function that is not a
\* function raises AttributeError.
json_data_connector_query(r) ==
    LET q == r.d.data_connector_query
        f == Get(q, "custom_filter_function")
    IN IF q = None THEN None
       ELSE IF f = None THEN q
       ELSE IF f.t # "function" THEN Raise("AttributeError", "__name__")
       ELSE SetItem(q, "custom_filter_function", Str(f.s))

\* lines 295-306
json_runtime_parameters(r) ==
    LET p == r.d.runtime_parameters
        rest == Dict([k \in DOMAIN p.d \ {"batch_data"} |-> p.d[k]])
    IN IF Get(p, "batch_data") # None
       THEN SetItem(rest, "batch_data", str_type(Get(p, "batch_data")))
       ELSE rest

\* BatchRequestBase.to_json_dict without the final filter
json_dict_unfiltered(r) ==
    LET q == json_data_connector_query(r)
        j0 == [datasource_name |-> r.d.datasource_name,
               data_connector_name |-> r.d.data_connector_name,
               data_asset_name |-> r.d.data_asset_name,
               data_connector_query |-> q]
        j1 == IF r.d.batch_spec_passthrough # None
              THEN ("batch_spec_passthrough" :> r.d.batch_spec_passthrough) @@ j0 ELSE j0
        j2 == IF r.d.limit # None THEN ("limit" :> r.d.limit) @@ j1 ELSE j1
        j3 == IF r.d.batch_identifiers # None
              THEN ("batch_identifiers" :> r.d.batch_identifiers) @@ j2 ELSE j2
        j4 == IF r.d.runtime_parameters # None
              THEN ("runtime_parameters" :> json_runtime_parameters(r)) @@ j3 ELSE j3
    IN IF IsExc(q) THEN q ELSE Dict(j4)

\* faulty variant: line 308 is missing, falsy entries stay in the mapping
BatchRequestBase_to_json_dict_keeps_falsy(r) == json_dict_unfiltered(r)

\* lines 270-310
BatchRequestBase_to_json_dict(r) ==
    LET j == json_dict_unfiltered(r)
    IN IF IsExc(j) THEN j ELSE Dict(filter_properties_dict(j.d))

BatchRequestBase_id(r) ==
    LET j == BatchRequestBase_to_json_dict(r)
    IN IF IsExc(j) THEN j ELSE to_id(IDDict(j.d))

\* self == other: ids are compared when other is an instance of self's class;
\* otherwise NotImplemented, and Python falls back to identity.
BatchRequestBase_eq(self, other) ==
    IF (self.t = other.t) \/ (self.t = "BatchRequest" /\ other.t = "RuntimeBatchRequest")
    THEN BatchRequestBase_id(self) = BatchRequestBase_id(other)
    ELSE IF isinstance_BatchRequest(other) THEN BatchRequestBase_id(other) = BatchRequestBase_id(self)
    ELSE FALSE

\* ------------------------------------------------------------------------
\* get_batch_request_from_acceptable_arguments
\* ------------------------------------------------------------------------
\* The keyword arguments of a call, every one defaulted as in the signature
NoArgs ==
    [datasource_name |-> None, data_connector_name |-> None, data_asset_name |-> None,
     batch_request |-> None, batch_data |-> None, data_connector_query |-> None,
     batch_identifiers |-> None, limit |-> None, index |-> None,
     custom_filter_function |-> None, batch_spec_passthrough |-> None,
     sampling_method |-> None, sampling_kwargs |-> None, splitter_method |-> None,
     splitter_kwargs |-> None, runtime_parameters |-> None, query |-> None, path |-> None,
     batch_filter_parameters |-> None, kwargs |-> Dict(EmptyMap)]

\* faulty variant: the arguments are counted by truthiness, as line 712 tests them
count_batch_data_query_path_truthy(a) ==
    Cardinality({k \in {"batch_data", "query", "path"} : truthy(a[k])})

\* line 691: how many of batch_data, query, path are not None
count_batch_data_query_path(a) ==
    Cardinality({k \in {"batch_data", "query", "path"} : a[k] # None})

\* lines 694-702
runtime_parameters_collision(a) ==
    \/ a.batch_data # None /\ truthy(a.runtime_parameters)
         /\ HasKey(a.runtime_parameters, "batch_data")
    \/ truthy(a.query) /\ truthy(a.runtime_parameters) /\ HasKey(a.runtime_parameters, "query")
    \/ truthy(a.path) /\ truthy(a.runtime_parameters) /\ HasKey(a.runtime_parameters, "path")

\* line 712
is_runtime_branch(a) ==
    a.batch_data # None \/ truthy(a.query) \/ truthy(a.path) \/ truthy(a.runtime_parameters)

\* lines 713-719: the mapping handed to RuntimeBatchRequest.  "x or {}" is x
\* itself when x is truthy, so the entry is stored into the caller's mapping.
merged_runtime_parameters(a) ==
    LET p == IF truthy(a.runtime_parameters) THEN a.runtime_parameters ELSE Dict(EmptyMap)
    IN IF a.batch_data # None THEN SetItem(p, "batch_data", a.batch_data)
       ELSE IF a.query # None THEN SetItem(p, "query", a.query)
       ELSE IF a.path # None THEN SetItem(p, "path", a.path)
       ELSE p

\* faulty variant: batch_spec_passthrough is not handed to RuntimeBatchRequest
runtime_branch_drops_passthrough(a, datasource_name) ==
    RuntimeBatchRequest_init("new",
        [datasource_name |-> datasource_name,
         data_connector_name |-> a.data_connector_name,
         data_asset_name |-> a.data_asset_name,
         runtime_parameters |-> merged_runtime_parameters(a),
         batch_identifiers |-> IF a.batch_identifiers = None THEN a.kwargs
                               ELSE a.batch_identifiers,
         batch_spec_passthrough |-> None])

\* lines 713-734
runtime_branch(a, datasource_name) ==
    RuntimeBatchRequest_init("new",
        [datasource_name |-> datasource_name,
         data_connector_name |-> a.data_connector_name,
         data_asset_name |-> a.data_asset_name,
         runtime_parameters |-> merged_runtime_parameters(a),
         batch_identifiers |-> IF a.batch_identifiers = None THEN a.kwargs
                               ELSE a.batch_identifiers,
         batch_spec_passthrough |-> a.batch_spec_passthrough])

\* faulty variant: batch_identifiers is not taken as an alias, the extra keyword
\* arguments are used
resolve_batch_filter_parameters_no_alias(a) ==
    IF a.batch_filter_parameters # None /\ a.batch_identifiers # None
    THEN Raise("ValueError", "either batch_filter_parameters or batch_identifiers")
    ELSE IF a.batch_filter_parameters = None
    THEN a.kwargs
    ELSE a.batch_filter_parameters

\* lines 737-753: the filter parameters of the built query; raises when both
\* spellings are given.
resolve_batch_filter_parameters(a) ==
    IF a.batch_filter_parameters # None /\ a.batch_identifiers # None
    THEN Raise("ValueError", "either batch_filter_parameters or batch_identifiers")
    ELSE IF a.batch_filter_parameters = None /\ a.batch_identifiers # None
    THEN a.batch_identifiers
    ELSE IF a.batch_filter_parameters = None /\ a.batch_identifiers = None
    THEN a.kwargs
    ELSE a.batch_filter_parameters

\* faulty variant: line 750 is missing, the extra keyword arguments are not
\* taken as filter parameters
build_data_connector_query_without_kwargs(a) ==
    LET f == IF a.batch_filter_parameters = None /\ a.batch_identifiers = None THEN None
             ELSE resolve_batch_filter_parameters(a)
    IN IF a.data_connector_query = None
       THEN IF IsExc(f) THEN f
            ELSE IDDict([batch_filter_parameters |-> f,
                         limit |-> a.limit,
                         index |-> a.index,
                         custom_filter_function |-> a.custom_filter_function])
       ELSE IDDict(a.data_connector_query.d)

\* lines 736-764
build_data_connector_query(a) ==
    LET f == resolve_batch_filter_parameters(a)
    IN IF a.data_connector_query = None
       THEN IF IsExc(f) THEN f
            ELSE IDDict([batch_filter_parameters |-> f,
                         limit |-> a.limit,
                         index |-> a.index,
                         custom_filter_function |-> a.custom_filter_function])
       ELSE IDDict(a.data_connector_query.d)

\* lines 766-781
build_batch_spec_passthrough(a) ==
    LET sampling_params ==
            IF a.sampling_method = None THEN EmptyMap
            ELSE IF a.sampling_kwargs = None THEN [sampling_method |-> a.sampling_method]
            ELSE [sampling_method |-> a.sampling_method, sampling_kwargs |-> a.sampling_kwargs]
        splitter_params ==
            IF a.splitter_method = None THEN EmptyMap
            ELSE IF a.splitter_kwargs = None THEN [splitter_method |-> a.splitter_method]
            ELSE [splitter_method |-> a.splitter_method, splitter_kwargs |-> a.splitter_kwargs]
    IN IF a.batch_spec_passthrough = None
       THEN Dict(splitter_params @@ sampling_params)
       ELSE a.batch_spec_passthrough

\* lines 736-789
catalog_branch(a, datasource_name) ==
    LET q == build_data_connector_query(a)
    IN IF IsExc(q) THEN q
       ELSE BatchRequest_init("BatchRequest", "new",
                [datasource_name |-> datasource_name,
                 data_connector_name |-> a.data_connector_name,
                 data_asset_name |-> a.data_asset_name,
                 data_connector_query |-> q,
                 limit |-> None,
                 batch_spec_passthrough |-> build_batch_spec_passthrough(a)])

\* faulty variant: the pre-built request is not returned at line 710, a request is
\* built from the other arguments instead
dispatch_without_short_circuit(a, datasource_name) ==
    IF is_runtime_branch(a) THEN runtime_branch(a, datasource_name)
    ELSE catalog_branch(a, datasource_name)

\* lines 708-791: what is returned once the argument checks have passed
dispatch(a, datasource_name) ==
    IF truthy(a.batch_request) THEN a.batch_request
    ELSE IF is_runtime_branch(a) THEN runtime_branch(a, datasource_name)
    ELSE catalog_branch(a, datasource_name)

\* faulty variant: the check of lines 686-689 is missing
check_arguments_without_datasource_name_check(a) ==
    IF truthy(a.batch_request) /\ ~isinstance_BatchRequest(a.batch_request)
    THEN Raise("TypeError", "batch_request")
    ELSE IF count_batch_data_query_path(a) > 1
    THEN Raise("ValueError", "only one of batch_data, query, or path")
    ELSE IF runtime_parameters_collision(a)
    THEN Raise("ValueError", "same keys in runtime_parameters")
    ELSE None

\* lines 677-706: the exception the argument checks raise, None when they pass
check_arguments(a) ==
    LET given == truthy(a.batch_request)
        datasource_name == IF given /\ isinstance_BatchRequest(a.batch_request)
                           THEN a.batch_request.d.datasource_name
                           ELSE a.datasource_name
    IN IF given /\ ~isinstance_BatchRequest(a.batch_request)
       THEN Raise("TypeError", "batch_request")
       ELSE IF ~isinstance_str(datasource_name)
       THEN Raise("GreatExpectationsTypeError", "datasource_name")
       ELSE IF count_batch_data_query_path(a) > 1
       THEN Raise("ValueError", "only one of batch_data, query, or path")
       ELSE IF runtime_parameters_collision(a)
       THEN Raise("ValueError", "same keys in runtime_parameters")
       ELSE None

\* the value returned, or the exception raised
get_batch_request_from_acceptable_arguments(a) ==
    LET e == check_arguments(a)
        datasource_name == IF truthy(a.batch_request) THEN a.batch_request.d.datasource_name
                           ELSE a.datasource_name
    IN IF IsExc(e) THEN e ELSE dispatch(a, datasource_name)

\* the caller's runtime_parameters mapping once the call has ended: line 713
\* keeps the caller's mapping when it is non-empty and lines 714-719 store
\* into it.
runtime_parameters_after_call(a) ==
    IF ~IsExc(check_arguments(a)) /\ ~truthy(a.batch_request) /\ is_runtime_branch(a)
       /\ truthy(a.runtime_parameters)
    THEN merged_runtime_parameters(a)
    ELSE a.runtime_parameters

\* ------------------------------------------------------------------------
\* Inputs
\* ------------------------------------------------------------------------
\* identifier mappings: absent, empty, or one entry
Mappings ==
    {None, Dict(EmptyMap)} \cup {Dict([k |-> Str("v" \o ToString(i))]) : i \in 1..MaxVal}

RuntimeParameters ==
    {None, Dict(EmptyMap), Dict([query |-> Str("q0")]), Dict([path |-> Str("p0")]),
     Dict([batch_data |-> DataFrame("d0")])}

Passthroughs == {None, Dict(EmptyMap), Dict([reader_method |-> Str("read_csv")])}

DataConnectorQueries ==
    {None, Dict(EmptyMap), Dict([limit |-> IntV("3")]),
     Dict([custom_filter_function |-> Function("my_filter")]),
     Dict([batch_filter_parameters |-> Dict([k |-> Str("v1")]), index |-> IntV("1")])}

PrebuiltBatchRequest ==
    BatchRequest_init("BatchRequest", "r1",
        [datasource_name |-> Str("s1"), data_connector_name |-> Str("c1"),
         data_asset_name |-> Str("a1"), data_connector_query |-> None, limit |-> None,
         batch_spec_passthrough |-> None])

PrebuiltRuntimeBatchRequest ==
    RuntimeBatchRequest_init("r2",
        [datasource_name |-> Str("s2"), data_connector_name |-> Str("c1"),
         data_asset_name |-> Str("a1"), runtime_parameters |-> Dict([query |-> Str("q0")]),
         batch_identifiers |-> Dict([k |-> Str("v1")]), batch_spec_passthrough |-> None])

\* calls that exercise the argument checks and the runtime branch
RuntimeCalls ==
    {[NoArgs EXCEPT !.datasource_name = ds, !.data_connector_name = dc,
                    !.data_asset_name = Str("a1"), !.batch_request = br, !.batch_data = bd,
                    !.query = q, !.path = p, !.runtime_parameters = rp,
                    !.batch_identifiers = bi, !.batch_spec_passthrough = bsp, !.kwargs = kw] :
        ds \in {None, Str(""), Str("s1"), IntV("5")},
        dc \in {Str("c1"), Str("")},
        br \in {None, Dict(EmptyMap), Dict([datasource_name |-> Str("s1")]),
                PrebuiltBatchRequest, PrebuiltRuntimeBatchRequest},
        bd \in {None, DataFrame("d1")},
        q \in {None, Str(""), Str("SELECT 1")},
        p \in {None, Str(""), Str("/x")},
        rp \in RuntimeParameters,
        bi \in Mappings,
        bsp \in {None, Dict([reader_method |-> Str("read_csv")])},
        kw \in {Dict(EmptyMap), Dict([k2 |-> Str("w")])}}

\* calls that exercise the catalog-query branch
CatalogCalls ==
    {[NoArgs EXCEPT !.datasource_name = ds, !.data_connector_name = Str("c1"),
                    !.data_asset_name = da, !.batch_identifiers = bi,
                    !.batch_filter_parameters = bfp, !.data_connector_query = dcq,
                    !.limit = lim, !.index = idx, !.custom_filter_function = cff,
                    !.batch_spec_passthrough = bsp, !.sampling_method = sm,
                    !.sampling_kwargs = sk, !.splitter_method = spm, !.kwargs = kw] :
        ds \in {None, Str("s1")},
        da \in {None, Str("a1")},
        bi \in Mappings,
        bfp \in Mappings,
        dcq \in {None, Dict(EmptyMap), Dict([limit |-> IntV("3")])},
        lim \in {None, IntV("3")},
        idx \in {None, IntV("1")},
        cff \in {None, Function("my_filter")},
        bsp \in {None, Dict([reader_method |-> Str("read_csv")])},
        sm \in {None, Str("_sample_using_random")},
        sk \in {None, Dict([p |-> Str("0.1")])},
        spm \in {None, Str("_split_on_year")},
        kw \in {Dict(EmptyMap), Dict([k2 |-> Str("w")])}}

\* direct constructions of a BatchRequest or a RuntimeBatchRequest
Constructions ==
    {[cls |-> "BatchRequest", datasource_name |-> ds, data_connector_name |-> Str("c1"),
      data_asset_name |-> da, data_connector_query |-> dcq, limit |-> lim,
      runtime_parameters |-> None, batch_identifiers |-> None,
      batch_spec_passthrough |-> bsp] :
        ds \in {Str("s1"), Str("")}, da \in {Str("a1"), None},
        dcq \in DataConnectorQueries, lim \in {None, IntV("3")}, bsp \in Passthroughs}
    \cup
    {[cls |-> "RuntimeBatchRequest", datasource_name |-> ds,
      data_connector_name |-> Str("c1"), data_asset_name |-> da,
      data_connector_query |-> None, limit |-> None,
      runtime_parameters |-> rp, batch_identifiers |-> bi,
      batch_spec_passthrough |-> bsp] :
        ds \in {Str("s1"), Str("")}, da \in {Str("a1"), None},
        rp \in RuntimeParameters
               \cup {Dict([batch_data |-> DataFrame("d0"), path |-> Str("p0")])},
        bi \in Mappings, bsp \in Passthroughs}

\* cls(**c) at address addr
construct(addr, c) ==
    IF c.cls = "BatchRequest" THEN BatchRequest_init("BatchRequest", addr, c)
    ELSE RuntimeBatchRequest_init(addr, c)

\* get_batch_request_from_acceptable_arguments(**j): the entries of the mapping
\* j bound to the parameters of the signature, the others collected in kwargs
keyword_arguments(j) ==
    LET named == DOMAIN NoArgs \ {"kwargs"}
    IN [k \in DOMAIN NoArgs |->
          IF k = "kwargs" THEN Dict([x \in DOMAIN j.d \ named |-> j.d[x]])
          ELSE IF k \in DOMAIN j.d THEN j.d[k]
          ELSE NoArgs[k]]

\* ------------------------------------------------------------------------
\* A caller of the module: one call of
\* get_batch_request_from_acceptable_arguments, or one construction of a
\* request followed by feeding its to_json_dict() back to the function
\* ------------------------------------------------------------------------
VARIABLES pc, args, result, caller_runtime_parameters, ctor, req, twin

callerVars == <<pc, args, result, caller_runtime_parameters, ctor, req, twin>>

\* the two BatchDefinition variables of SpecDefinition
VARIABLES defs, def_op

definitionVars == <<defs, def_op>>

\* the heap of SpecCopy
VARIABLES objs, dicts, nData, cp_pc, cp_frame, last_copy

copyVars == <<objs, dicts, nData, cp_pc, cp_frame, last_copy>>

\* a Batch, and what its to_json_dict() last returned or raised
VARIABLES batch, batch_json

batchVars == <<batch, batch_json>>

vars == <<callerVars, definitionVars, copyVars, batchVars>>

NoObj == [bd |-> 0, bi |-> 0, dc |-> "free"]

NoFrame == [self |-> 0, batch_data |-> 0, cp |-> 0, had |-> FALSE]

NoCopy == [src |-> 0, dst |-> 0, had |-> FALSE, src_bd |-> 0, dst_bd |-> 0, src_bi |-> 0,
           dst_bi |-> 0, same_identifiers |-> FALSE]

NoCaller ==
    /\ pc = "idle" /\ args = NoArgs /\ result = None /\ caller_runtime_parameters = None
    /\ ctor = None /\ req = None /\ twin = None

NoBatch == batch = None /\ batch_json = None

NoDefinitions == defs = [i \in {1, 2} |-> None] /\ def_op = "none"

NoHeap ==
    /\ objs = [o \in 1..MaxObjs |-> NoObj]
    /\ dicts = [o \in 1..MaxObjs |-> 0]
    /\ nData = 0
    /\ cp_pc = "idle" /\ cp_frame = NoFrame /\ last_copy = NoCopy

InitCall ==
    /\ pc = "start"
    /\ args \in RuntimeCalls \cup CatalogCalls
    /\ result = None
    /\ caller_runtime_parameters = args.runtime_parameters
    /\ ctor = None /\ req = None /\ twin = None

InitConstruct ==
    /\ pc = "new"
    /\ ctor \in Constructions
    /\ req = None /\ twin = None
    /\ args = NoArgs /\ result = None /\ caller_runtime_parameters = None

Init == (InitCall \/ InitConstruct) /\ NoDefinitions /\ NoHeap /\ NoBatch

Call ==
    /\ pc = "start"
    /\ result' = get_batch_request_from_acceptable_arguments(args)
    /\ caller_runtime_parameters' = runtime_parameters_after_call(args)
    /\ pc' = "done"
    /\ UNCHANGED <<args, ctor, req, twin, definitionVars, copyVars, batchVars>>

\* req = cls(**ctor), and twin the same construction with another
\* batch_spec_passthrough
Construct ==
    /\ pc = "new"
    /\ req' = construct("r1", ctor)
    /\ \E p \in Passthroughs :
           twin' = construct("r2", [ctor EXCEPT !.batch_spec_passthrough = p])
    /\ pc' = "constructed"
    /\ UNCHANGED <<args, result, caller_runtime_parameters, ctor, definitionVars, copyVars, batchVars>>

\* get_batch_request_from_acceptable_arguments(**req.to_json_dict())
RoundTrip ==
    /\ pc = "constructed"
    /\ isinstance_BatchRequest(req)
    /\ ~IsExc(BatchRequestBase_to_json_dict(req))
    /\ args' = keyword_arguments(BatchRequestBase_to_json_dict(req))
    /\ result' = get_batch_request_from_acceptable_arguments(args')
    /\ caller_runtime_parameters' = runtime_parameters_after_call(args')
    /\ pc' = "done"
    /\ UNCHANGED <<ctor, req, twin, definitionVars, copyVars, batchVars>>

Next == Call \/ Construct \/ RoundTrip

Spec == Init /\ [][Next]_vars

\* ------------------------------------------------------------------------
\* Two BatchDefinition variables: construction and the batch_spec_passthrough
\* setter
\* ------------------------------------------------------------------------
DefinitionArguments ==
    {[datasource_name |-> ds, data_connector_name |-> dc, data_asset_name |-> da,
      batch_identifiers |-> bi, batch_spec_passthrough |-> bsp] :
        ds \in {None, Str(""), Str("s1"), Str("s2"), IntV("0"), IntV("5")},
        dc \in {None, Str("c1")},
        da \in {Str(""), Str("a1")},
        bi \in {None, Dict(EmptyMap), Dict([k |-> Str("v1")]), IDDict(EmptyMap),
                V("BatchKwargs", "", [k |-> Str("v1")])}
               \cup {IDDict([k |-> Str("v" \o ToString(i))]) : i \in 1..MaxVal},
        bsp \in {None, Dict([reader_method |-> Str("read_csv")])}}

DefinitionAddress(i) == IF i = 1 THEN "b1" ELSE "b2"

InitDefinition == NoDefinitions /\ NoCaller /\ NoHeap /\ NoBatch

\* defs[i] = BatchDefinition(**k)
ConstructDefinition ==
    /\ \E i \in {1, 2}, k \in DefinitionArguments :
           defs' = [defs EXCEPT ![i] = BatchDefinition_init(DefinitionAddress(i), k)]
    /\ def_op' = "construct"
    /\ UNCHANGED <<callerVars, copyVars, batchVars>>

\* defs[i].batch_spec_passthrough = p
SetPassthrough ==
    /\ \E i \in {1, 2}, p \in Passthroughs :
           /\ defs[i].t = "BatchDefinition"
           /\ defs' = [defs EXCEPT ![i] = set_batch_spec_passthrough(defs[i], p)]
    /\ def_op' = "set"
    /\ UNCHANGED <<callerVars, copyVars, batchVars>>

NextDefinition == ConstructDefinition \/ SetPassthrough

SpecDefinition == InitDefinition /\ [][NextDefinition]_vars

\* ------------------------------------------------------------------------
\* Constructions whose fields may be of a wrong type or empty
\* ------------------------------------------------------------------------
\* values of a wrong type for the fields that take a mapping or an integer: a
\* non-empty and an empty str
NotAMapping == {Str("x"), Str("")}

ConstructionsWithInvalidFields ==
    {[cls |-> "BatchRequest", datasource_name |-> ds, data_connector_name |-> dc,
      data_asset_name |-> da, data_connector_query |-> dcq, limit |-> lim,
      runtime_parameters |-> None, batch_identifiers |-> None,
      batch_spec_passthrough |-> None] :
        ds \in {Str("s1"), Str(""), None, IntV("5")}, dc \in {Str("c1"), None},
        da \in {Str("a1"), Str("")},
        dcq \in {None, Dict(EmptyMap), Dict([limit |-> IntV("3")])} \cup NotAMapping,
        lim \in {None, IntV("3"), IntV("0")} \cup NotAMapping}
    \cup
    {[cls |-> "RuntimeBatchRequest", datasource_name |-> ds, data_connector_name |-> dc,
      data_asset_name |-> da, data_connector_query |-> None, limit |-> None,
      runtime_parameters |-> rp, batch_identifiers |-> bi,
      batch_spec_passthrough |-> bsp] :
        ds \in {Str("s1"), Str(""), None, IntV("5")}, dc \in {Str("c1"), None},
        da \in {Str("a1"), Str("")},
        rp \in {None, Dict(EmptyMap), Dict([query |-> Str("q0")]), Str("x")},
        bi \in {None, Dict(EmptyMap), Dict([k |-> Str("v1")]), Str("x")},
        bsp \in {None, Dict([reader_method |-> Str("read_csv")])} \cup NotAMapping}

InitConstructAny ==
    /\ pc = "new"
    /\ ctor \in ConstructionsWithInvalidFields
    /\ req = None /\ twin = None
    /\ args = NoArgs /\ result = None /\ caller_runtime_parameters = None
    /\ NoDefinitions /\ NoHeap /\ NoBatch

\* req = cls(**ctor)
ConstructAny ==
    /\ pc = "new"
    /\ req' = construct("r1", ctor)
    /\ pc' = "constructed"
    /\ UNCHANGED <<args, result, caller_runtime_parameters, ctor, twin, definitionVars,
                   copyVars, batchVars>>

NextConstruct == ConstructAny

SpecConstruct == InitConstructAny /\ [][NextConstruct]_vars

\* ------------------------------------------------------------------------
\* Batch
\* ------------------------------------------------------------------------
BatchSpec(m) == V("BatchSpec", "", m)

BatchMarkers(m) == V("BatchMarkers", "", m)

BatchKwargs(m) == V("BatchKwargs", "", m)

\* str(v): the text of a str is the str itself; of any other value, a text
\* made of its type and its scalar part.
str(v) ==
    IF v.t = "str" THEN v
    ELSE IF v = None THEN Str("None")
    ELSE Str(v.t \o "(" \o v.s \o ")")

\* datetime.datetime.now(datetime.timezone.utc).strftime(...), lines 524-526
LoadTimes == {Str("20210101T000000.000000Z"), Str("20210101T000001.000000Z")}

\* Batch.__init__ at address addr, now being the time of the call.  The
\* parameters kept for backward compatibility default to None.
Batch_init(addr, k, now) ==
    V("Batch", addr,
      [data |-> k.data,
       batch_request |-> IF k.batch_request = None THEN Dict(EmptyMap) ELSE k.batch_request,
       batch_definition |-> IF k.batch_definition = None THEN IDDict(EmptyMap)
                            ELSE k.batch_definition,
       batch_spec |-> IF k.batch_spec = None THEN BatchSpec(EmptyMap) ELSE k.batch_spec,
       batch_markers |-> IF k.batch_markers = None
                         THEN BatchMarkers([ge_load_time |-> now])
                         ELSE k.batch_markers,
       data_context |-> None,
       datasource_name |-> None,
       batch_parameters |-> None,
       batch_kwargs |-> BatchKwargs(EmptyMap)])

\* the batch_request and batch_definition setters
Batch_set(self, field, x) == V(self.t, self.s, [self.d EXCEPT ![field] = x])

\* x.to_json_dict() of line 585: the attribute exists on the request classes
\* only
call_to_json_dict(x) ==
    IF isinstance_BatchRequest(x) THEN BatchRequestBase_to_json_dict(x)
    ELSE Raise("AttributeError", "to_json_dict")

\* Batch.to_json_dict: the mapping returned, or the exception raised
Batch_to_json_dict(self) ==
    LET r == call_to_json_dict(self.d.batch_request)
    IN IF IsExc(r) THEN r
       ELSE Dict([data |-> str(self.d.data),
                  batch_request |-> r,
                  batch_definition |-> IF self.d.batch_definition.t = "BatchDefinition"
                                       THEN BatchDefinition_to_json_dict(self.d.batch_definition)
                                       ELSE Dict(EmptyMap),
                  batch_spec |-> str(self.d.batch_spec),
                  batch_markers |-> str(self.d.batch_markers)])

\* requests a Batch is built with or is given later
BatchRequests ==
    {PrebuiltBatchRequest, PrebuiltRuntimeBatchRequest,
     BatchRequest_init("BatchRequest", "r3",
        [datasource_name |-> Str("s1"), data_connector_name |-> Str("c1"),
         data_asset_name |-> Str("a1"),
         data_connector_query |-> Dict([custom_filter_function |-> Function("my_filter")]),
         limit |-> IntV("3"), batch_spec_passthrough |-> None])}

BatchDefinitions ==
    {BatchDefinition_init("b1",
        [datasource_name |-> Str("s1"), data_connector_name |-> Str("c1"),
         data_asset_name |-> Str("a1"), batch_identifiers |-> IDDict([k |-> Str("v1")]),
         batch_spec_passthrough |-> None])}

BatchArguments ==
    [data : {None, DataFrame("d1"), Str("rows")},
     batch_request : {None, Dict(EmptyMap)} \cup BatchRequests,
     batch_definition : {None, IDDict(EmptyMap)} \cup BatchDefinitions,
     batch_spec : {None, BatchSpec([path |-> Str("/x")])},
     batch_markers : {None, BatchMarkers([ge_load_time |-> Str("20200101T000000.000000Z")])}]

InitBatch == NoBatch /\ NoCaller /\ NoDefinitions /\ NoHeap

\* batch = Batch(**k)
NewBatch ==
    /\ batch = None
    /\ \E k \in BatchArguments, now \in LoadTimes : batch' = Batch_init("B1", k, now)
    /\ UNCHANGED <<batch_json, callerVars, definitionVars, copyVars>>

\* batch.batch_request = r
SetBatchRequest ==
    /\ batch # None
    /\ \E r \in {Dict(EmptyMap)} \cup BatchRequests :
           batch' = Batch_set(batch, "batch_request", r)
    /\ UNCHANGED <<batch_json, callerVars, definitionVars, copyVars>>

\* batch.batch_definition = d
SetBatchDefinition ==
    /\ batch # None
    /\ \E d \in {IDDict(EmptyMap)} \cup BatchDefinitions :
           batch' = Batch_set(batch, "batch_definition", d)
    /\ UNCHANGED <<batch_json, callerVars, definitionVars, copyVars>>

\* batch.to_json_dict()
ToJsonDict ==
    /\ batch # None
    /\ batch_json' = Batch_to_json_dict(batch)
    /\ UNCHANGED <<batch, callerVars, definitionVars, copyVars>>

NextBatch == NewBatch \/ SetBatchRequest \/ SetBatchDefinition \/ ToJsonDict

SpecBatch == InitBatch /\ [][NextBatch]_vars

\* ------------------------------------------------------------------------
\* RuntimeBatchRequest.__deepcopy__ on a heap of RuntimeBatchRequest
\* instances.  objs[o].bd is the address of the object bound to
\* runtime_parameters["batch_data"] (0: no such key), objs[o].bi the address
\* of the batch_identifiers mapping, whose content is dicts[address], and
\* objs[o].dc the instance attribute __deepcopy__: "class" when the instance
\* has none and the method of the class is found, "None", or "bound" for a
\* bound method.  The batch_data payloads are mutable objects (data frames):
\* a deep copy of one is a new object.
\* ------------------------------------------------------------------------
Alive == {o \in 1..MaxObjs : objs[o].dc # "free"}

NewAddress == Cardinality(Alive) + 1

\* the batch_data objects a caller can pass: one that exists already, or a
\* new one while there is room
DataChoices == 1..(IF nData < MaxData THEN nData + 1 ELSE MaxData)

InitCopy == NoHeap /\ NoCaller /\ NoDefinitions /\ NoBatch

\* RuntimeBatchRequest(...) with runtime_parameters holding batch_data (bd > 0)
\* or only a query or a path (bd = 0)
NewRuntimeBatchRequest ==
    /\ cp_pc = "idle"
    /\ NewAddress <= MaxObjs
    /\ \E bd \in {0} \cup DataChoices :
           /\ objs' = [objs EXCEPT ![NewAddress] = [bd |-> bd, bi |-> NewAddress, dc |-> "class"]]
           /\ nData' = IF bd > nData THEN bd ELSE nData
    /\ dicts' = [dicts EXCEPT ![NewAddress] = 1]
    /\ UNCHANGED <<cp_pc, cp_frame, last_copy, callerVars, definitionVars, batchVars>>

\* request.runtime_parameters["batch_data"] = d
SetBatchData ==
    /\ cp_pc = "idle"
    /\ \E o \in Alive, d \in DataChoices :
           /\ objs' = [objs EXCEPT ![o].bd = d]
           /\ nData' = IF d > nData THEN d ELSE nData
    /\ UNCHANGED <<dicts, cp_pc, cp_frame, last_copy, callerVars, definitionVars, batchVars>>

\* request.batch_identifiers[key] = value
MutateIdentifiers ==
    /\ cp_pc = "idle"
    /\ \E o \in Alive :
           /\ dicts[objs[o].bi] = 1
           /\ dicts' = [dicts EXCEPT ![objs[o].bi] = 2]
    /\ UNCHANGED <<objs, nData, cp_pc, cp_frame, last_copy, callerVars, definitionVars, batchVars>>

\* copy.deepcopy of an instance whose __deepcopy__ is None: a new instance
\* at NewAddress whose attributes are deep copies of those of o
reconstruct(o) ==
    [bd |-> IF objs[o].bd = 0 THEN 0 ELSE nData + 1,
     bi |-> NewAddress,
     dc |-> objs[o].dc]

\* the heap after copy.deepcopy has rebuilt o at NewAddress
Reconstructed(o) ==
    /\ objs' = [objs EXCEPT ![NewAddress] = reconstruct(o)]
    /\ dicts' = [dicts EXCEPT ![NewAddress] = dicts[objs[o].bi]]
    /\ nData' = IF objs[o].bd = 0 THEN nData ELSE nData + 1

\* what a finished duplication of src into dst leaves
CopyRecord(src, dst, had) ==
    [src |-> src, dst |-> dst, had |-> had,
     src_bd |-> objs'[src].bd, dst_bd |-> objs'[dst].bd,
     src_bi |-> objs'[src].bi, dst_bi |-> objs'[dst].bi,
     same_identifiers |-> dicts'[objs'[dst].bi] = dicts'[objs'[src].bi]]

\* copy.deepcopy(request): getattr(request, "__deepcopy__", None) is called
\* when it is not None, and the instance is rebuilt otherwise
Deepcopy ==
    /\ cp_pc = "idle"
    /\ NewAddress <= MaxObjs /\ nData < MaxData
    /\ \E o \in Alive :
           IF objs[o].dc = "None"
           THEN /\ Reconstructed(o)
                /\ last_copy' = CopyRecord(o, NewAddress, objs[o].bd # 0)
                /\ UNCHANGED <<cp_pc, cp_frame>>
           ELSE /\ cp_pc' = "L448"
                /\ cp_frame' = [self |-> o, batch_data |-> 0, cp |-> 0, had |-> objs[o].bd # 0]
                /\ UNCHANGED <<objs, dicts, nData, last_copy>>
    /\ UNCHANGED <<callerVars, definitionVars, batchVars>>

\* lines 448-450: the test, and batch_data = runtime_parameters.pop("batch_data")
L448_pop_batch_data ==
    /\ cp_pc = "L448"
    /\ IF objs[cp_frame.self].bd # 0
       THEN /\ cp_frame' = [cp_frame EXCEPT !.batch_data = objs[cp_frame.self].bd]
            /\ objs' = [objs EXCEPT ![cp_frame.self].bd = 0]
            /\ cp_pc' = "L451"
       ELSE /\ cp_pc' = "L471"
            /\ UNCHANGED <<objs, cp_frame>>
    /\ UNCHANGED <<dicts, nData, last_copy, callerVars, definitionVars, batchVars>>

\* lines 451-452: self.__deepcopy__ = None
L451_hide_deepcopy ==
    /\ cp_pc = "L451"
    /\ objs' = [objs EXCEPT ![cp_frame.self].dc = "None"]
    /\ cp_pc' = "L453"
    /\ UNCHANGED <<dicts, nData, cp_frame, last_copy, callerVars, definitionVars, batchVars>>

\* line 453: cp = copy.deepcopy(self, memo)
L453_copy ==
    /\ cp_pc = "L453"
    /\ Reconstructed(cp_frame.self)
    /\ cp_frame' = [cp_frame EXCEPT !.cp = NewAddress]
    /\ cp_pc' = "L454"
    /\ UNCHANGED <<last_copy, callerVars, definitionVars, batchVars>>

\* line 453 when copy.deepcopy raises (an attribute that cannot be copied):
\* the exception leaves __deepcopy__ through no handler, lines 454-468 are
\* not run.
L453_copy_raises ==
    /\ cp_pc = "L453"
    /\ last_copy' = [NoCopy EXCEPT !.src = cp_frame.self, !.had = cp_frame.had,
                                   !.src_bd = objs[cp_frame.self].bd,
                                   !.src_bi = objs[cp_frame.self].bi]
    /\ cp_pc' = "idle"
    /\ cp_frame' = NoFrame
    /\ UNCHANGED <<objs, dicts, nData, callerVars, definitionVars, batchVars>>

\* line 454: self.__deepcopy__ = deepcopy_method
L454_restore_deepcopy ==
    /\ cp_pc = "L454"
    /\ objs' = [objs EXCEPT ![cp_frame.self].dc = "bound"]
    /\ cp_pc' = "L456"
    /\ UNCHANGED <<dicts, nData, cp_frame, last_copy, callerVars, definitionVars, batchVars>>

\* lines 456-465: cp.__deepcopy__ = bound_method
L456_bind_copy ==
    /\ cp_pc = "L456"
    /\ objs' = [objs EXCEPT ![cp_frame.cp].dc = "bound"]
    /\ cp_pc' = "L466"
    /\ UNCHANGED <<dicts, nData, cp_frame, last_copy, callerVars, definitionVars, batchVars>>

\* line 466: cp._runtime_parameters["batch_data"] = batch_data
L466_share_with_copy ==
    /\ cp_pc = "L466"
    /\ objs' = [objs EXCEPT ![cp_frame.cp].bd = cp_frame.batch_data]
    /\ cp_pc' = "L467"
    /\ UNCHANGED <<dicts, nData, cp_frame, last_copy, callerVars, definitionVars, batchVars>>

\* lines 467-468: self._runtime_parameters["batch_data"] = batch_data; return cp
L467_put_back ==
    /\ cp_pc = "L467"
    /\ objs' = [objs EXCEPT ![cp_frame.self].bd = cp_frame.batch_data]
    /\ UNCHANGED <<dicts, nData, callerVars, definitionVars, batchVars>>
    /\ last_copy' = CopyRecord(cp_frame.self, cp_frame.cp, cp_frame.had)
    /\ cp_pc' = "idle"
    /\ cp_frame' = NoFrame

\* line 471: self.__deepcopy__ = None
L471_disable_deepcopy ==
    /\ cp_pc = "L471"
    /\ objs' = [objs EXCEPT ![cp_frame.self].dc = "None"]
    /\ cp_pc' = "L472"
    /\ UNCHANGED <<dicts, nData, cp_frame, last_copy, callerVars, definitionVars, batchVars>>

\* line 472: return copy.deepcopy(self, memo)
L472_copy ==
    /\ cp_pc = "L472"
    /\ Reconstructed(cp_frame.self)
    /\ last_copy' = CopyRecord(cp_frame.self, NewAddress, cp_frame.had)
    /\ cp_pc' = "idle"
    /\ cp_frame' = NoFrame
    /\ UNCHANGED <<callerVars, definitionVars, batchVars>>

NextCopy ==
    \/ NewRuntimeBatchRequest
    \/ SetBatchData
    \/ MutateIdentifiers
    \/ Deepcopy
    \/ L448_pop_batch_data
    \/ L451_hide_deepcopy
    \/ L453_copy
    \/ L453_copy_raises
    \/ L454_restore_deepcopy
    \/ L456_bind_copy
    \/ L466_share_with_copy
    \/ L467_put_back
    \/ L471_disable_deepcopy
    \/ L472_copy

SpecCopy == InitCopy /\ [][NextCopy]_vars

\* ------------------------------------------------------------------------
\* Claims about get_batch_request_from_acceptable_arguments
\* ------------------------------------------------------------------------
NotNone(k) == args[k] # None

TwoOfBatchDataQueryPath ==
    \/ NotNone("batch_data") /\ NotNone("query")
    \/ NotNone("batch_data") /\ NotNone("path")
    \/ NotNone("query") /\ NotNone("path")

ValidNames ==
    \A k \in {"datasource_name", "data_connector_name", "data_asset_name"} :
        args[k].t = "str" /\ args[k].s # ""

\* C1: a call with a string datasource_name (and a batch_request that is
\* absent or a BatchRequest) and at least two of batch_data, query, path not
\* None raises the ValueError "Must provide only one of batch_data, query, or
\* path." and returns no request.
C1_OnlyOneOf ==
    (/\ pc = "done"
     /\ args.datasource_name.t = "str"
     /\ (args.batch_request = None \/ isinstance_BatchRequest(args.batch_request))
     /\ TwoOfBatchDataQueryPath)
    => result = Raise("ValueError", "only one of batch_data, query, or path")

\* a pre-built request and all of batch_data, query, path are passed, and the
\* call has raised
C1_Witness ==
    /\ pc = "done"
    /\ args.datasource_name.t = "str"
    /\ isinstance_BatchRequest(args.batch_request)
    /\ NotNone("batch_data") /\ NotNone("query") /\ NotNone("path")
    /\ result.t = "ValueError"

\* C2 as stated: a pre-built BatchRequest is returned as it is, whatever the
\* other arguments, and nothing is raised.
C2_ShortCircuitAlways ==
    (pc = "done" /\ isinstance_BatchRequest(args.batch_request))
    => result = args.batch_request

\* the singular arguments that lines 694-702 take as given
GivenSingular ==
    {k \in {"batch_data"} : NotNone(k)}
    \cup {k \in {"query", "path"} : args[k] # None /\ args[k] # Str("")}

\* C2, amended: a pre-built BatchRequest is returned as it is, the very same
\* object, whenever at most one of batch_data, query, path is not None and no
\* given one of them (batch_data not None, query or path non-empty) is a key
\* of runtime_parameters.
C2_ShortCircuit ==
    (/\ pc = "done"
     /\ isinstance_BatchRequest(args.batch_request)
     /\ ~TwoOfBatchDataQueryPath
     /\ \A k \in GivenSingular :
            args.runtime_parameters = None \/ k \notin DOMAIN args.runtime_parameters.d)
    => result = args.batch_request

\* a pre-built request is passed with a query and runtime_parameters, and is
\* returned
C2_Witness ==
    /\ pc = "done"
    /\ isinstance_BatchRequest(args.batch_request)
    /\ NotNone("query") /\ NotNone("runtime_parameters") /\ NotNone("batch_identifiers")
    /\ result = args.batch_request

\* C3: with no pre-built request and a string datasource_name, a call in
\* which one of batch_data, query, path is not None and its key is also a key
\* of runtime_parameters raises a ValueError.
C3_CollisionRaises ==
    (/\ pc = "done"
     /\ args.batch_request = None
     /\ args.datasource_name.t = "str"
     /\ \E k \in {"batch_data", "query", "path"} :
            /\ NotNone(k)
            /\ args.runtime_parameters # None
            /\ k \in DOMAIN args.runtime_parameters.d)
    => result.t = "ValueError"

\* C4: with no pre-built request, a call that returns has built a
\* RuntimeBatchRequest exactly when one of batch_data, query, path,
\* runtime_parameters is not None, and a plain BatchRequest otherwise.
C4_RuntimeIffNotNone ==
    (/\ pc = "done"
     /\ args.batch_request = None
     /\ isinstance_BatchRequest(result))
    => (result.t = "RuntimeBatchRequest"
        <=> (NotNone("batch_data") \/ NotNone("query") \/ NotNone("path")
             \/ NotNone("runtime_parameters")))

\* the call of C5 spelt with batch_filter_parameters
SpeltAsFilterParameters ==
    [args EXCEPT !.batch_identifiers = None, !.batch_filter_parameters = args.batch_identifiers]

CatalogCallWithIdentifiers ==
    /\ pc = "done"
    /\ ValidNames
    /\ \A k \in {"batch_request", "batch_data", "query", "path", "runtime_parameters",
                 "data_connector_query", "batch_filter_parameters"} : args[k] = None
    /\ NotNone("batch_identifiers")

\* C5: on the catalog-query path, with valid names and no data_connector_query,
\* the request built from batch_identifiers=m and the request built from
\* batch_filter_parameters=m, all other arguments equal, have equal
\* to_json_dict() results and equal ids.
C5_AliasSameRequest ==
    CatalogCallWithIdentifiers
    => LET other == get_batch_request_from_acceptable_arguments(SpeltAsFilterParameters)
       IN /\ result.t = "BatchRequest" /\ other.t = "BatchRequest"
          /\ ~IsExc(BatchRequestBase_to_json_dict(result))
          /\ BatchRequestBase_to_json_dict(result) = BatchRequestBase_to_json_dict(other)
          /\ BatchRequestBase_id(result) = BatchRequestBase_id(other)

\* a request was built from a non-empty batch_identifiers while extra keyword
\* arguments were passed too, and its query filters by those identifiers
C5_Witness ==
    /\ CatalogCallWithIdentifiers
    /\ truthy(args.batch_identifiers) /\ truthy(args.kwargs)
    /\ result.t = "BatchRequest"
    /\ result.d.data_connector_query.d.batch_filter_parameters = args.batch_identifiers

\* ------------------------------------------------------------------------
\* Claims about requests: round trip and identity
\* ------------------------------------------------------------------------
RoundTripDone == pc = "done" /\ isinstance_BatchRequest(req)

SameIdAsReq(r) ==
    /\ isinstance_BatchRequest(r)
    /\ ~IsExc(BatchRequestBase_id(r))
    /\ BatchRequestBase_id(r) = BatchRequestBase_id(req)

\* C6 as stated: for every constructed request r, the function called with the
\* entries of r.to_json_dict() returns a request whose id can be computed and
\* equals r.id.
C6_RoundTripAlways == RoundTripDone => SameIdAsReq(result)

\* a request whose to_json_dict() keeps what the function needs to rebuild it
Rebuildable ==
    IF req.t = "RuntimeBatchRequest"
    THEN ~HasKey(req.d.runtime_parameters, "batch_data")
    ELSE /\ req.d.limit = None
         /\ truthy(req.d.data_connector_query)
         /\ Get(req.d.data_connector_query, "custom_filter_function") = None

\* C6, amended: the round trip gives a request with the same id for every
\* RuntimeBatchRequest whose runtime_parameters has no batch_data entry, and
\* for every BatchRequest with no top-level limit whose data_connector_query
\* is a non-empty mapping without a custom_filter_function.
C6_RoundTrip == (RoundTripDone /\ Rebuildable) => SameIdAsReq(result)

\* a RuntimeBatchRequest with a batch_spec_passthrough went round
C6_Witness ==
    /\ RoundTripDone /\ Rebuildable
    /\ req.t = "RuntimeBatchRequest"
    /\ truthy(req.d.batch_spec_passthrough)
    /\ result.t = "RuntimeBatchRequest"
    /\ SameIdAsReq(result)

BothConstructed ==
    /\ pc \in {"constructed", "done"}
    /\ isinstance_BatchRequest(req) /\ isinstance_BatchRequest(twin)
    /\ ~IsExc(BatchRequestBase_id(req)) /\ ~IsExc(BatchRequestBase_id(twin))

\* C10 as stated: two requests that agree on every field except
\* batch_spec_passthrough have the same id and compare equal.
C10_PassthroughNotInId ==
    BothConstructed
    => BatchRequestBase_id(req) = BatchRequestBase_id(twin) /\ BatchRequestBase_eq(req, twin)

\* C10, amended: two requests that agree on every field except
\* batch_spec_passthrough, which is None or empty in both, have the same id
\* and compare equal.
C10_EmptyPassthroughNotInId ==
    (/\ BothConstructed
     /\ ~truthy(req.d.batch_spec_passthrough)
     /\ ~truthy(twin.d.batch_spec_passthrough))
    => BatchRequestBase_id(req) = BatchRequestBase_id(twin) /\ BatchRequestBase_eq(req, twin)

\* one request was built with no batch_spec_passthrough and the other with an
\* empty one
C10_Witness ==
    /\ BothConstructed
    /\ req.d.batch_spec_passthrough = None
    /\ twin.d.batch_spec_passthrough = Dict(EmptyMap)
    /\ BatchRequestBase_eq(req, twin)

\* ------------------------------------------------------------------------
\* Claims about BatchDefinition
\* ------------------------------------------------------------------------
IsDefinition(i) == defs[i].t = "BatchDefinition"

NameFields == {"datasource_name", "data_connector_name", "data_asset_name"}

\* C8: every BatchDefinition whose construction returns has three names that
\* are non-empty strings and a batch_identifiers of exactly the IDDict type.
C8_ValidatedFields ==
    \A i \in {1, 2} :
        IsDefinition(i)
        => /\ \A f \in NameFields : defs[i].d[f].t = "str" /\ defs[i].d[f].s # ""
           /\ defs[i].d.batch_identifiers.t = "IDDict"

SameIdentityFields(x, y) ==
    \A f \in NameFields \cup {"batch_identifiers"} : x.d[f] = y.d[f]

\* C9: id, equality and hash of a BatchDefinition depend only on the three
\* names and batch_identifiers: definitions that agree on these four have the
\* same id, are equal and have the same hash, whatever was assigned to
\* batch_spec_passthrough; two definitions are equal iff their ids match, and
\* equal definitions have equal hashes.
C9_IdentityIgnoresPassthrough ==
    (IsDefinition(1) /\ IsDefinition(2))
    => /\ SameIdentityFields(defs[1], defs[2])
          => /\ BatchDefinition_id(defs[1]) = BatchDefinition_id(defs[2])
             /\ BatchDefinition_eq(defs[1], defs[2])
             /\ BatchDefinition_hash(defs[1]) = BatchDefinition_hash(defs[2])
       /\ BatchDefinition_eq(defs[1], defs[2])
          <=> BatchDefinition_id(defs[1]) = BatchDefinition_id(defs[2])
       /\ BatchDefinition_eq(defs[1], defs[2])
          => BatchDefinition_hash(defs[1]) = BatchDefinition_hash(defs[2])

\* two definitions agree on the four fields, the setter has just given them
\* different batch_spec_passthrough values, and they are equal
C9_Witness ==
    /\ IsDefinition(1) /\ IsDefinition(2)
    /\ def_op = "set"
    /\ SameIdentityFields(defs[1], defs[2])
    /\ truthy(defs[1].d.batch_identifiers)
    /\ defs[1].d.batch_spec_passthrough # defs[2].d.batch_spec_passthrough
    /\ BatchDefinition_eq(defs[1], defs[2])

\* ------------------------------------------------------------------------
\* Claims about RuntimeBatchRequest.__deepcopy__
\* ------------------------------------------------------------------------
\* C7: every duplication of a RuntimeBatchRequest whose runtime_parameters
\* holds batch_data when it is duplicated gives a copy bound to the same
\* batch_data object and with a batch_identifiers mapping of its own, equal
\* to the original's; also after an earlier duplication made while batch_data
\* was absent.
C7_CopySharesBatchData ==
    (last_copy.dst # 0 /\ last_copy.had)
    => /\ last_copy.dst_bd # 0
       /\ last_copy.dst_bd = last_copy.src_bd
       /\ last_copy.dst_bi # last_copy.src_bi
       /\ last_copy.same_identifiers

\* ------------------------------------------------------------------------
\* Claims about the argument checks of
\* get_batch_request_from_acceptable_arguments
\* ------------------------------------------------------------------------
NonEmptyString(v) == isinstance_str(v) /\ truthy(v)

\* C11 as stated: on every path, a datasource_name that is not a non-empty
\* string makes the call fail with GreatExpectationsTypeError raised by the
\* function's own check, before a request is constructed.
C11_DatasourceNameAlwaysChecked ==
    (pc = "done" /\ ~NonEmptyString(args.datasource_name))
        => /\ result.t = "GreatExpectationsTypeError"
           /\ result = check_arguments(args)

\* C11, amended: when no pre-built batch_request is given, a datasource_name
\* that is not a str makes the call fail with GreatExpectationsTypeError from
\* the check of lines 686-689, before a request is constructed; the empty
\* string passes that check and the call fails with a ValueError of the later
\* argument checks or with the TypeError of the request's constructor.
C11_DatasourceNameChecked ==
    (pc = "done" /\ ~truthy(args.batch_request))
        => /\ ~isinstance_str(args.datasource_name)
                => /\ result.t = "GreatExpectationsTypeError"
                   /\ result = check_arguments(args)
           /\ args.datasource_name = Str("")
                => /\ result.t \in {"ValueError", "TypeError"}
                   /\ result.t = "TypeError" => check_arguments(args) = None

C11_Witness ==
    /\ pc = "done" /\ ctor = None
    /\ ~truthy(args.batch_request)
    /\ args.datasource_name = IntV("5")
    /\ args.path = Str("/x")
    /\ result.t = "GreatExpectationsTypeError"

\* ------------------------------------------------------------------------
\* Claims about the validation of a request's constructor
\* ------------------------------------------------------------------------
\* the fields in the order in which the constructor of cls is said to check
\* them
CheckedFields(cls) ==
    IF cls = "BatchRequest"
    THEN <<"datasource_name", "data_connector_name", "data_asset_name",
           "data_connector_query", "limit">>
    ELSE <<"datasource_name", "data_connector_name", "data_asset_name",
           "runtime_parameters", "batch_identifiers", "batch_spec_passthrough">>

\* the value of field f violates what is required of it
InvalidField(c, f) ==
    IF f \in {"datasource_name", "data_connector_name", "data_asset_name"}
    THEN ~NonEmptyString(c[f])
    ELSE IF f \in {"runtime_parameters", "batch_identifiers"}
    THEN ~(isinstance_dict(c[f]) /\ truthy(c[f]))
    ELSE IF f = "limit" THEN c[f] # None /\ ~isinstance_int(c[f])
    ELSE c[f] # None /\ ~isinstance_dict(c[f])

InvalidPositions(c) ==
    {i \in DOMAIN CheckedFields(c.cls) : InvalidField(c, CheckedFields(c.cls)[i])}

EarliestInvalidField(c) ==
    CheckedFields(c.cls)[CHOOSE i \in InvalidPositions(c) :
                            \A j \in InvalidPositions(c) : i <= j]

\* C12: a construction with one or more invalid fields raises the TypeError
\* of the earliest invalid field in the order datasource_name,
\* data_connector_name, data_asset_name, data_connector_query, limit (then,
\* for a RuntimeBatchRequest, runtime_parameters, batch_identifiers,
\* batch_spec_passthrough), and no request results.
C12_EarliestInvalidFieldRaises ==
    (pc = "constructed" /\ InvalidPositions(ctor) # {})
        => req = Raise("TypeError", EarliestInvalidField(ctor))

\* ------------------------------------------------------------------------
\* Claims about Batch
\* ------------------------------------------------------------------------
\* batch_json is what to_json_dict() gives for the Batch as it is now
JsonTaken == batch # None /\ batch_json = Batch_to_json_dict(batch) /\ batch_json # None

\* C13: Batch.to_json_dict() returns normally for every Batch, also one built
\* without batch_request and batch_definition or with these reassigned:
\* "batch_request" and "batch_definition" are the object's own to_json_dict()
\* when it has one and an empty mapping otherwise, and "data", "batch_spec"
\* and "batch_markers" are strings.
C13_ToJsonDictReturns ==
    JsonTaken
        => /\ batch_json.t = "dict"
           /\ \A f \in {"data", "batch_spec", "batch_markers"} : isinstance_str(batch_json.d[f])
           /\ batch_json.d.batch_request =
                  IF isinstance_BatchRequest(batch.d.batch_request)
                  THEN BatchRequestBase_to_json_dict(batch.d.batch_request)
                  ELSE Dict(EmptyMap)
           /\ batch_json.d.batch_definition =
                  IF batch.d.batch_definition.t = "BatchDefinition"
                  THEN BatchDefinition_to_json_dict(batch.d.batch_definition)
                  ELSE Dict(EmptyMap)

\* ------------------------------------------------------------------------
\* Claims about the catalog-query branch
\* ------------------------------------------------------------------------
\* the call has ended on the catalog-query branch (lines 735-789) and had to
\* build the data_connector_query
BuiltQueryOnCatalogPath ==
    /\ pc = "done"
    /\ ~truthy(args.batch_request)
    /\ isinstance_str(args.datasource_name)
    /\ args.batch_data = None /\ ~truthy(args.query) /\ ~truthy(args.path)
    /\ ~(args.query # None /\ args.path # None)
    /\ ~truthy(args.runtime_parameters)
    /\ args.data_connector_query = None

BuiltQueryKeys == {"batch_filter_parameters", "limit", "index", "custom_filter_function"}

\* C14: on the catalog-query branch without a data_connector_query argument,
\* the call raises ValueError when batch_filter_parameters and
\* batch_identifiers are both not None; otherwise the request returned has a
\* data_connector_query with exactly the keys batch_filter_parameters, limit,
\* index, custom_filter_function, whose batch_filter_parameters is the
\* batch_filter_parameters argument if not None, else batch_identifiers if
\* not None, else the extra keyword arguments.
C14_FilterParametersPrecedence ==
    BuiltQueryOnCatalogPath
        => IF args.batch_filter_parameters # None /\ args.batch_identifiers # None
           THEN result.t = "ValueError"
           ELSE /\ result.t \in {"BatchRequest", "TypeError"}
                /\ result.t = "BatchRequest"
                     => /\ DOMAIN result.d.data_connector_query.d = BuiltQueryKeys
                        /\ result.d.data_connector_query.d.batch_filter_parameters =
                              IF args.batch_filter_parameters # None
                              THEN args.batch_filter_parameters
                              ELSE IF args.batch_identifiers # None
                              THEN args.batch_identifiers
                              ELSE args.kwargs
                        /\ result.d.data_connector_query.d.limit = args.limit
                        /\ result.d.data_connector_query.d.index = args.index
                        /\ result.d.data_connector_query.d.custom_filter_function =
                              args.custom_filter_function

\* a request built from the extra keyword arguments, neither spelling given
C14_Witness ==
    /\ BuiltQueryOnCatalogPath
    /\ args.batch_filter_parameters = None /\ args.batch_identifiers = None
    /\ truthy(args.kwargs)
    /\ result.t = "BatchRequest"
    /\ result.d.data_connector_query.d.batch_filter_parameters = args.kwargs

\* ------------------------------------------------------------------------
\* Claims about the effects of a call on the caller's objects
\* ------------------------------------------------------------------------
\* C15: after a call of get_batch_request_from_acceptable_arguments, whether
\* it returned or raised, the caller's runtime_parameters mapping has the
\* keys and values it had when it was passed in.
C15_RuntimeParametersUntouched ==
    pc = "done" => caller_runtime_parameters = args.runtime_parameters

\* ------------------------------------------------------------------------
\* Claims about what a duplication does to the original
\* ------------------------------------------------------------------------
\* C16: at every step of a duplication of a RuntimeBatchRequest that held
\* batch_data when the duplication started, and after the duplication has
\* ended, by returning the copy or by the failure of the inner copy, the
\* original's runtime_parameters holds batch_data, bound to the same object
\* as before.
C16_OriginalKeepsBatchData ==
    /\ (cp_pc # "idle" /\ cp_frame.had)
          => /\ objs[cp_frame.self].bd # 0
             /\ cp_frame.batch_data # 0 => objs[cp_frame.self].bd = cp_frame.batch_data
    /\ (last_copy.src # 0 /\ last_copy.had) => last_copy.src_bd # 0

====
